---- MODULE Spec2Model ----
(***************************************************************************)
(* Route planner (A* over a weighted road graph) and weather ingestion of  *)
(* backend/app.py, with the dataset of backend/data/mock_data.py.          *)
(*                                                                         *)
(* Numbers.  The code computes in floating point; the model computes the   *)
(* same quantities exactly, as integers:                                   *)
(*   - times are counted in ticks, TicksPerMin ticks to the minute;        *)
(*   - risk multipliers are counted in hundredths (1.03 is 103);           *)
(*   - great-circle distances are counted in metres (the haversine value   *)
(*     rounded to the nearest metre).                                      *)
(* With these units edge_cost_minutes and heuristic_time_min are integers  *)
(* with no rounding other than the metre of the haversine table.           *)
(***************************************************************************)
EXTENDS Integers, Sequences, FiniteSets, TLC

VARIABLES
  GRAPH,     \* data.mock_data.GRAPH: the process-wide adjacency structure
  weather,   \* what the weather collaborator answers for each city now
  changes,   \* how many times the collaborator's answers have changed
  rt,        \* the thread serving POST /api/route and its locals
  sw,        \* the threads serving POST /api/update_weather and their locals
  sched,     \* the server: threaded or not, last thread run, preemptions
  last_summary  \* the summary the last answered update_weather call returned

vars == << GRAPH, weather, changes, rt, sw, sched, last_summary >>

(***************************************************************************)
(* Bounds of the model.                                                    *)
(***************************************************************************)
MaxWeatherChanges == 1
MaxPreempt == 1

(***************************************************************************)
(* backend/data/mock_data.py                                               *)
(***************************************************************************)
\* CITIES, in the dict's insertion order (the order update_weather iterates).
CityOrder ==
  << "Hyderabad", "Warangal", "Nizamabad", "Karimnagar", "Khammam",
     "Mahabubnagar", "Nalgonda", "Suryapet", "Siddipet", "Medak" >>

City == { CityOrder[i] : i \in 1..Len(CityOrder) }

\* Python's order on the city names (str.__lt__), used by heapq on ties.
CityRank ==
  [ Hyderabad |-> 1, Karimnagar |-> 2, Khammam |-> 3, Mahabubnagar |-> 4,
    Medak |-> 5, Nalgonda |-> 6, Nizamabad |-> 7, Siddipet |-> 8,
    Suryapet |-> 9, Warangal |-> 10 ]

\* haversine_km of the coordinates in CITIES, in metres.
HaversineM ==
  [ Hyderabad |->
      [ Hyderabad |-> 0, Warangal |-> 134090, Nizamabad |-> 149060, Karimnagar |-> 135428,
        Khammam |-> 177378, Mahabubnagar |-> 89089, Nalgonda |-> 90818, Suryapet |-> 123367,
        Siddipet |-> 88325, Medak |-> 46174 ],
    Warangal |->
      [ Hyderabad |-> 134090, Warangal |-> 0, Nizamabad |-> 176611, Karimnagar |-> 71718,
        Khammam |-> 99634, Mahabubnagar |-> 218458, Nalgonda |-> 107799, Suryapet |-> 92585,
        Siddipet |-> 80014, Medak |-> 141298 ],
    Nizamabad |->
      [ Hyderabad |-> 149060, Warangal |-> 176611, Nizamabad |-> 0, Karimnagar |-> 112130,
        Khammam |-> 269196, Mahabubnagar |-> 214911, Nalgonda |-> 218899, Suryapet |-> 234944,
        Siddipet |-> 102050, Medak |-> 104420 ],
    Karimnagar |->
      [ Hyderabad |-> 135428, Warangal |-> 71718, Nizamabad |-> 112130, Karimnagar |-> 0,
        Khammam |-> 171063, Mahabubnagar |-> 224144, Nalgonda |-> 154987, Suryapet |-> 153798,
        Siddipet |-> 47793, Medak |-> 118027 ],
    Khammam |->
      [ Hyderabad |-> 177378, Warangal |-> 99634, Nizamabad |-> 269196, Karimnagar |-> 171063,
        Khammam |-> 0, Mahabubnagar |-> 237007, Nalgonda |-> 96470, Suryapet |-> 57879,
        Siddipet |-> 167332, Medak |-> 206283 ],
    Mahabubnagar |->
      [ Hyderabad |-> 89089, Warangal |-> 218458, Nizamabad |-> 214911, Karimnagar |-> 224144,
        Khammam |-> 237007, Mahabubnagar |-> 0, Nalgonda |-> 140542, Suryapet |-> 179145,
        Siddipet |-> 176599, Medak |-> 116270 ],
    Nalgonda |->
      [ Hyderabad |-> 90818, Warangal |-> 107799, Nizamabad |-> 218899, Karimnagar |-> 154987,
        Khammam |-> 96470, Mahabubnagar |-> 140542, Nalgonda |-> 0, Suryapet |-> 38603,
        Siddipet |-> 124738, Medak |-> 130503 ],
    Suryapet |->
      [ Hyderabad |-> 123367, Warangal |-> 92585, Nizamabad |-> 234944, Karimnagar |-> 153798,
        Khammam |-> 57879, Mahabubnagar |-> 179145, Nalgonda |-> 38603, Suryapet |-> 0,
        Siddipet |-> 134601, Medak |-> 157665 ],
    Siddipet |->
      [ Hyderabad |-> 88325, Warangal |-> 80014, Nizamabad |-> 102050, Karimnagar |-> 47793,
        Khammam |-> 167332, Mahabubnagar |-> 176599, Nalgonda |-> 124738, Suryapet |-> 134601,
        Siddipet |-> 0, Medak |-> 71861 ],
    Medak |->
      [ Hyderabad |-> 46174, Warangal |-> 141298, Nizamabad |-> 104420, Karimnagar |-> 118027,
        Khammam |-> 206283, Mahabubnagar |-> 116270, Nalgonda |-> 130503, Suryapet |-> 157665,
        Siddipet |-> 71861, Medak |-> 0 ] ]

\* GRAPH as loaded.  GRAPH[c] is the dict of c's outgoing edges, kept as the
\* sequence of its items in insertion order; risk is in hundredths.
LoadedGraph ==
  [ Hyderabad |->
      << [to |-> "Medak", distance_km |-> 70, traffic_min |-> 15, weather_min |-> 0, risk |-> 103],
         [to |-> "Nizamabad", distance_km |-> 175, traffic_min |-> 20, weather_min |-> 2, risk |-> 106],
         [to |-> "Karimnagar", distance_km |-> 165, traffic_min |-> 18, weather_min |-> 1, risk |-> 105],
         [to |-> "Warangal", distance_km |-> 150, traffic_min |-> 20, weather_min |-> 2, risk |-> 105],
         [to |-> "Nalgonda", distance_km |-> 100, traffic_min |-> 12, weather_min |-> 1, risk |-> 103],
         [to |-> "Mahabubnagar", distance_km |-> 95, traffic_min |-> 10, weather_min |-> 0, risk |-> 102],
         [to |-> "Siddipet", distance_km |-> 100, traffic_min |-> 14, weather_min |-> 1, risk |-> 104],
         [to |-> "Suryapet", distance_km |-> 140, traffic_min |-> 16, weather_min |-> 1, risk |-> 105],
         [to |-> "Khammam", distance_km |-> 195, traffic_min |-> 18, weather_min |-> 2, risk |-> 106] >>,
    Medak |->
      << [to |-> "Hyderabad", distance_km |-> 70, traffic_min |-> 12, weather_min |-> 0, risk |-> 103],
         [to |-> "Siddipet", distance_km |-> 60, traffic_min |-> 8, weather_min |-> 0, risk |-> 102],
         [to |-> "Nizamabad", distance_km |-> 120, traffic_min |-> 10, weather_min |-> 1, risk |-> 104] >>,
    Siddipet |->
      << [to |-> "Medak", distance_km |-> 60, traffic_min |-> 7, weather_min |-> 0, risk |-> 102],
         [to |-> "Hyderabad", distance_km |-> 100, traffic_min |-> 14, weather_min |-> 1, risk |-> 104],
         [to |-> "Karimnagar", distance_km |-> 130, traffic_min |-> 12, weather_min |-> 1, risk |-> 105] >>,
    Nizamabad |->
      << [to |-> "Hyderabad", distance_km |-> 175, traffic_min |-> 18, weather_min |-> 2, risk |-> 106],
         [to |-> "Medak", distance_km |-> 120, traffic_min |-> 10, weather_min |-> 1, risk |-> 104],
         [to |-> "Karimnagar", distance_km |-> 130, traffic_min |-> 15, weather_min |-> 1, risk |-> 106] >>,
    Karimnagar |->
      << [to |-> "Nizamabad", distance_km |-> 130, traffic_min |-> 14, weather_min |-> 1, risk |-> 105],
         [to |-> "Hyderabad", distance_km |-> 165, traffic_min |-> 16, weather_min |-> 1, risk |-> 105],
         [to |-> "Warangal", distance_km |-> 90, traffic_min |-> 10, weather_min |-> 1, risk |-> 103] >>,
    Warangal |->
      << [to |-> "Karimnagar", distance_km |-> 90, traffic_min |-> 9, weather_min |-> 1, risk |-> 103],
         [to |-> "Hyderabad", distance_km |-> 150, traffic_min |-> 18, weather_min |-> 2, risk |-> 105],
         [to |-> "Suryapet", distance_km |-> 65, traffic_min |-> 8, weather_min |-> 0, risk |-> 102],
         [to |-> "Khammam", distance_km |-> 92, traffic_min |-> 10, weather_min |-> 1, risk |-> 104] >>,
    Suryapet |->
      << [to |-> "Warangal", distance_km |-> 65, traffic_min |-> 7, weather_min |-> 0, risk |-> 102],
         [to |-> "Hyderabad", distance_km |-> 140, traffic_min |-> 15, weather_min |-> 1, risk |-> 105],
         [to |-> "Nalgonda", distance_km |-> 60, traffic_min |-> 8, weather_min |-> 0, risk |-> 103],
         [to |-> "Khammam", distance_km |-> 110, traffic_min |-> 12, weather_min |-> 1, risk |-> 105] >>,
    Nalgonda |->
      << [to |-> "Hyderabad", distance_km |-> 100, traffic_min |-> 10, weather_min |-> 0, risk |-> 103],
         [to |-> "Suryapet", distance_km |-> 60, traffic_min |-> 7, weather_min |-> 0, risk |-> 103],
         [to |-> "Mahabubnagar", distance_km |-> 120, traffic_min |-> 9, weather_min |-> 1, risk |-> 104] >>,
    Mahabubnagar |->
      << [to |-> "Hyderabad", distance_km |-> 95, traffic_min |-> 9, weather_min |-> 0, risk |-> 102],
         [to |-> "Nalgonda", distance_km |-> 120, traffic_min |-> 8, weather_min |-> 1, risk |-> 103] >>,
    Khammam |->
      << [to |-> "Hyderabad", distance_km |-> 195, traffic_min |-> 16, weather_min |-> 2, risk |-> 106],
         [to |-> "Warangal", distance_km |-> 92, traffic_min |-> 10, weather_min |-> 1, risk |-> 104],
         [to |-> "Suryapet", distance_km |-> 110, traffic_min |-> 12, weather_min |-> 1, risk |-> 105] >> ]

(***************************************************************************)
(* backend/app.py: configuration and cost model                            *)
(***************************************************************************)
AVERAGE_SPEED_KMH == 80

\* AVG_RISK = 1.05, in hundredths.
AVG_RISK == 105

\* The resolution of time: chosen so that every cost below is an integer.
TicksPerMin == 5000 * AVERAGE_SPEED_KMH

\* 1 / KM_PER_MIN, the time one kilometre takes, with KM_PER_MIN =
\* AVERAGE_SPEED_KMH / 60.
TicksPerKm == (60 * TicksPerMin) \div AVERAGE_SPEED_KMH

\* heuristic_time_min(city_a, city_b) = (dist_km / KM_PER_MIN) * AVG_RISK,
\* with dist_km = HaversineM / 1000.
heuristic_time_min(city_a, city_b) ==
  HaversineM[city_a][city_b] * (((TicksPerKm \div 1000) * AVG_RISK) \div 100)

\* edge_cost_minutes(edge) = (distance_km / KM_PER_MIN + traffic_min +
\* weather_min) * risk.  Every edge of the model carries the four keys, so
\* the .get defaults never apply.
TimeWithDelays(edge) ==
  edge.distance_km * TicksPerKm + (edge.traffic_min + edge.weather_min) * TicksPerMin

edge_cost_minutes(edge) == (TimeWithDelays(edge) \div 100) * edge.risk

(***************************************************************************)
(* Dict access on GRAPH                                                    *)
(***************************************************************************)
\* An empty dict.
EmptyDict == [x \in {} |-> 0]

\* list(d.keys()) of an adjacency dict, in insertion order.
KeyList(adj) == [i \in 1..Len(adj) |-> adj[i].to]

Keys(adj) == { adj[i].to : i \in 1..Len(adj) }

\* GRAPH.get(c, {})
GraphGet(G, c) == IF c \in DOMAIN G THEN G[c] ELSE <<>>

\* b in GRAPH[a], for a that may have no key
HasEdge(G, a, b) == b \in Keys(GraphGet(G, a))

EdgeIdx(G, a, b) == CHOOSE i \in 1..Len(G[a]) : G[a][i].to = b

\* GRAPH[a][b]
EdgeOf(G, a, b) == G[a][EdgeIdx(G, a, b)]

(***************************************************************************)
(* a_star_route                                                            *)
(***************************************************************************)
\* Python's order on the heap's tuples (f, g, city).
TupleLess(x, y) ==
  \/ x[1] < y[1]
  \/ x[1] = y[1] /\ x[2] < y[2]
  \/ x[1] = y[1] /\ x[2] = y[2] /\ CityRank[x[3]] < CityRank[y[3]]

\* heapq.heappop: the least tuple.  No tuple is pushed twice (a push needs a
\* strictly smaller g for its city), so the heap is held as a set.
HeapMin(heap) == CHOOSE e \in heap : \A o \in heap \ {e} : TupleLess(e, o)

\* g_score.get(n, float("inf")) < x is written through Known below.
Known(g_score, n) == n \in DOMAIN g_score

RECURSIVE ReconstructPath_Unreversed(_, _)
ReconstructPath_Unreversed(came_from, current) ==
  IF current \in DOMAIN came_from
    THEN << current >> \o ReconstructPath_Unreversed(came_from, came_from[current])
    ELSE << current >>

\* The path read back through came_from (lines 56-60), start first.
RECURSIVE ReconstructPath(_, _)
ReconstructPath(came_from, current) ==
  IF current \in DOMAIN came_from
    THEN Append(ReconstructPath(came_from, came_from[current]), current)
    ELSE << current >>

\* The locals of a_star_route after lines 46-50.
AStarInit(start, goal) ==
  [ open_heap |-> { << heuristic_time_min(start, goal), 0, start >> },
    came_from |-> EmptyDict,
    g_score   |-> (start :> 0) ]

Expand_DefaultZero(G, s, e, goal) ==
  LET adj == GraphGet(G, e[3])
      tentative_g(i) == e[2] + edge_cost_minutes(adj[i])
      better == { i \in 1..Len(adj) :
                    /\ Known(s.g_score, adj[i].to)
                    /\ tentative_g(i) < s.g_score[adj[i].to] }
      nbs == { adj[i].to : i \in better }
      at(n) == CHOOSE i \in better : adj[i].to = n
  IN [ open_heap |-> (s.open_heap \ {e}) \cup
                       { << tentative_g(i) + heuristic_time_min(adj[i].to, goal),
                            tentative_g(i), adj[i].to >> : i \in better },
       came_from |-> [ n \in DOMAIN s.came_from \cup nbs |->
                         IF n \in nbs THEN e[3] ELSE s.came_from[n] ],
       g_score   |-> [ n \in DOMAIN s.g_score \cup nbs |->
                         IF n \in nbs THEN tentative_g(at(n)) ELSE s.g_score[n] ] ]

\* The for loop of lines 63-69 on the popped entry e = (f, g, current): the
\* neighbours are distinct, so each is decided on the g_score of loop entry.
Expand(G, s, e, goal) ==
  LET adj == GraphGet(G, e[3])
      tentative_g(i) == e[2] + edge_cost_minutes(adj[i])
      better == { i \in 1..Len(adj) :
                    \/ ~Known(s.g_score, adj[i].to)
                    \/ tentative_g(i) < s.g_score[adj[i].to] }
      nbs == { adj[i].to : i \in better }
      at(n) == CHOOSE i \in better : adj[i].to = n
  IN [ open_heap |-> (s.open_heap \ {e}) \cup
                       { << tentative_g(i) + heuristic_time_min(adj[i].to, goal),
                            tentative_g(i), adj[i].to >> : i \in better },
       came_from |-> [ n \in DOMAIN s.came_from \cup nbs |->
                         IF n \in nbs THEN e[3] ELSE s.came_from[n] ],
       g_score   |-> [ n \in DOMAIN s.g_score \cup nbs |->
                         IF n \in nbs THEN tentative_g(at(n)) ELSE s.g_score[n] ] ]

(***************************************************************************)
(* route_breakdown                                                         *)
(***************************************************************************)
\* round(x, 2) of a time: ticks to hundredths of a minute, to the nearest.
Round2(ticks) == (2 * ticks + (TicksPerMin \div 100)) \div (2 * (TicksPerMin \div 100))

Leg_RiskOnBaseOnly(G, a, b) ==
  LET edge == EdgeOf(G, a, b)
      time_with_delays == TimeWithDelays(edge)
      time_with_risk == ((edge.distance_km * TicksPerKm) \div 100) * edge.risk
                          + (edge.traffic_min + edge.weather_min) * TicksPerMin
  IN [ from |-> a, to |-> b,
       distance_km |-> edge.distance_km,
       traffic_min |-> edge.traffic_min,
       weather_min |-> edge.weather_min,
       risk |-> edge.risk,
       risk_extra |-> time_with_risk - time_with_delays,
       time_with_risk |-> time_with_risk ]

\* What one turn of the loop (83-98) computes for the leg a -> b.
Leg(G, a, b) ==
  LET edge == EdgeOf(G, a, b)
      time_with_delays == TimeWithDelays(edge)
      time_with_risk == (time_with_delays \div 100) * edge.risk
  IN [ from |-> a, to |-> b,
       distance_km |-> edge.distance_km,
       traffic_min |-> edge.traffic_min,
       weather_min |-> edge.weather_min,
       risk |-> edge.risk,
       risk_extra |-> time_with_risk - time_with_delays,
       time_with_risk |-> time_with_risk ]

\* x += leg[key] over the legs, from 0, in path order.
RECURSIVE SumField(_, _, _)
SumField(legs, key, n) ==
  IF n = 0 THEN 0 ELSE SumField(legs, key, n - 1) + legs[n][key]

\* The locals of route_breakdown when its loop ends: the unrounded sums.
BreakdownSums(G, path) ==
  LET legs == [ i \in 1..(Len(path) - 1) |-> Leg(G, path[i], path[i + 1]) ]
  IN [ total_distance |-> SumField(legs, "distance_km", Len(legs)),
       total_traffic |-> SumField(legs, "traffic_min", Len(legs)),
       total_weather |-> SumField(legs, "weather_min", Len(legs)),
       compounded_risk_effect |-> SumField(legs, "risk_extra", Len(legs)),
       total_time |-> SumField(legs, "time_with_risk", Len(legs)),
       legs |-> legs ]

\* The dict route_breakdown returns: times rounded to hundredths of a minute.
route_breakdown(G, path) ==
  LET s == BreakdownSums(G, path)
  IN [ total_distance_km |-> s.total_distance,
       total_traffic_min |-> s.total_traffic,
       total_weather_min |-> s.total_weather,
       risk_extra_time_min |-> Round2(s.compounded_risk_effect),
       estimated_total_time_min |-> Round2(s.total_time),
       legs |-> [ i \in 1..Len(s.legs) |->
                    [ from |-> s.legs[i].from, to |-> s.legs[i].to,
                      distance_km |-> s.legs[i].distance_km,
                      traffic_min |-> s.legs[i].traffic_min,
                      weather_min |-> s.legs[i].weather_min,
                      risk |-> s.legs[i].risk,
                      estimated_time_min |-> Round2(s.legs[i].time_with_risk) ] ] ]

\* The breakdown get_route answers with when start == end (lines 136-143).
ZeroBreakdown ==
  [ total_distance_km |-> 0, total_traffic_min |-> 0, total_weather_min |-> 0,
    risk_extra_time_min |-> 0, estimated_total_time_min |-> 0, legs |-> << >> ]

(***************************************************************************)
(* The server's threads                                                    *)
(***************************************************************************)
Sweepers == { "w1", "w2" }

Threads == { "route" } \cup Sweepers

ThreadPc(t) == IF t = "route" THEN rt.pc ELSE sw[t].pc

\* A thread that is not in the middle of a request.
Parked(t) == IF t = "none" THEN TRUE ELSE ThreadPc(t) \in { "idle", "exit" }

\* Thread t may take the next step.  Without threads a request is served to
\* its end before the next is accepted.  With threads, every request has a
\* thread of its own, and a thread in the middle of its request is
\* interrupted by another at most MaxPreempt times in a run.
Turn(t) ==
  IF sched.threaded
    THEN t = sched.last \/ Parked(sched.last) \/ sched.preempts < MaxPreempt
    ELSE \A u \in Threads \ {t} : ThreadPc(u) = "idle"

Ran(t) ==
  sched' = IF sched.threaded
             THEN [ sched EXCEPT !.last = t,
                                 !.preempts = IF t # sched.last /\ ~Parked(sched.last)
                                                THEN @ + 1 ELSE @ ]
             ELSE sched

\* Where a thread goes when its response is sent: it serves the next
\* request, or (a request's own thread) it ends.
AfterResponse == IF sched.threaded THEN "exit" ELSE "idle"

(***************************************************************************)
(* POST /api/route                                                         *)
(***************************************************************************)
\* The names a client sends: the cities, a name that is no city, and ""
\* for a key that is missing or empty (both fail "not start").
Names == City \cup { "Atlantis", "" }

\* The names sent to the threaded server of the model.
ThreadedNames == { "Siddipet", "Karimnagar", "Warangal" }

RequestNames == IF sched.threaded THEN ThreadedNames ELSE Names

NoSearch == [ open_heap |-> {}, came_from |-> EmptyDict, g_score |-> EmptyDict ]

RtIdle ==
  [ pc |-> "idle", start |-> "", goal |-> "", search |-> NoSearch,
    current |-> << >>, path |-> << >>, total_time |-> 0,
    response |-> [ status |-> 0 ] ]

ErrorResponse(code, msg) == [ status |-> code, error |-> msg ]

RouteResponse(path, breakdown) ==
  [ status |-> 200, path |-> path, breakdown |-> breakdown ]

get_route_NoShortcut(start, end) ==
  IF start = "" \/ end = ""
    THEN [ RtIdle EXCEPT !.pc = "done", !.start = start, !.goal = end,
             !.response = ErrorResponse(400, "Missing 'start' or 'end'") ]
  ELSE IF start \notin City \/ end \notin City
    THEN [ RtIdle EXCEPT !.pc = "done", !.start = start, !.goal = end,
             !.response = ErrorResponse(404, "No route found") ]
  ELSE [ RtIdle EXCEPT !.pc = "search", !.start = start, !.goal = end,
           !.search = AStarInit(start, end) ]

\* get_route up to the first pop: the parameter checks (131-144), then
\* a_star_route's own check (43-44) and lines 46-50.
get_route(start, end) ==
  IF start = "" \/ end = ""
    THEN [ RtIdle EXCEPT !.pc = "done", !.start = start, !.goal = end,
             !.response = ErrorResponse(400, "Missing 'start' or 'end'") ]
  ELSE IF start = end
    THEN [ RtIdle EXCEPT !.pc = "done", !.start = start, !.goal = end,
             !.response = RouteResponse(<< start >>, ZeroBreakdown) ]
  ELSE IF start \notin City \/ end \notin City
    THEN [ RtIdle EXCEPT !.pc = "done", !.start = start, !.goal = end,
             !.response = ErrorResponse(404, "No route found") ]
  ELSE [ RtIdle EXCEPT !.pc = "search", !.start = start, !.goal = end,
           !.search = AStarInit(start, end) ]

GetRoute ==
  /\ rt.pc = "idle"
  /\ Turn("route")
  /\ \E start \in RequestNames, end \in RequestNames : rt' = get_route(start, end)
  /\ Ran("route")
  /\ UNCHANGED << GRAPH, weather, changes, last_summary, sw >>

\* One turn of the while loop of a_star_route (52-69), or its end (71) and
\* get_route's answer to it (147-148).
a_star_step(G, r) ==
  IF r.search.open_heap = {}
    THEN [ r EXCEPT !.pc = "done",
                    !.response = ErrorResponse(404, "No route found") ]
  ELSE LET e == HeapMin(r.search.open_heap)
       IN IF e[3] = r.goal
            THEN [ r EXCEPT !.pc = "breakdown", !.current = e,
                            !.search.open_heap = @ \ {e},
                            !.path = ReconstructPath(r.search.came_from, e[3]) ]
            ELSE [ r EXCEPT !.current = e,
                            !.search = Expand(G, r.search, e, r.goal) ]

AStarStep ==
  /\ rt.pc = "search"
  /\ Turn("route")
  /\ rt' = a_star_step(GRAPH, rt)
  /\ Ran("route")
  /\ UNCHANGED << GRAPH, weather, changes, last_summary, sw >>

\* get_route lines 150-154: the breakdown of the path, on GRAPH as it is now.
RouteBreakdown ==
  /\ rt.pc = "breakdown"
  /\ Turn("route")
  /\ rt' = [ rt EXCEPT !.pc = "done",
                       !.total_time = BreakdownSums(GRAPH, rt.path).total_time,
                       !.response = RouteResponse(rt.path, route_breakdown(GRAPH, rt.path)) ]
  /\ Ran("route")
  /\ UNCHANGED << GRAPH, weather, changes, last_summary, sw >>

\* The response is sent and the thread is free again.
RouteReturn ==
  /\ rt.pc = "done"
  /\ Turn("route")
  /\ rt' = [ RtIdle EXCEPT !.pc = AfterResponse ]
  /\ Ran("route")
  /\ UNCHANGED << GRAPH, weather, changes, last_summary, sw >>

(***************************************************************************)
(* backend/weather_utils.py: the weather collaborator                      *)
(***************************************************************************)
\* _category_to_delay_and_risk: every (delay, risk) the category can draw.
CategoryToDelayAndRisk(category) ==
  IF category \in { "Extreme", "Squall", "Tornado" }
    THEN (25..30) \X (115..130)
  ELSE IF category \in { "Thunderstorm", "Rain" }
    THEN (10..20) \X (108..112)
  ELSE IF category \in { "Drizzle", "Mist", "Fog", "Haze", "Smoke" }
    THEN (5..10) \X (103..106)
  ELSE IF category \in { "Snow" }
    THEN (10..20) \X (107..112)
  ELSE (0..3) \X (100..102)

Info(condition, dr) == [ condition |-> condition, delay_min |-> dr[1], risk |-> dr[2] ]

\* The answers of get_weather_delay the model draws from: one fair and one
\* rainy, each within its category's ranges.
WeatherInfos ==
  { Info("Clear", dr) : dr \in CategoryToDelayAndRisk("Clear") \cap { << 0, 100 >> } }
    \cup
  { Info("Rain", dr) : dr \in CategoryToDelayAndRisk("Rain") \cap { << 15, 110 >> } }

\* The collaborator answers by coordinates: the cities north of 17.7 N
\* share one answer and the others another.
North == { "Warangal", "Nizamabad", "Karimnagar", "Siddipet", "Medak" }

WeatherMaps ==
  { [ c \in City |-> IF c \in North THEN n ELSE s ] :
      n \in WeatherInfos, s \in WeatherInfos }

\* The request of lines 61-63 raises (timeout, HTTP error, bad payload): the
\* entry for a city then holds this mark, with the draw that the except
\* branch's _category_to_delay_and_risk("Clouds") is going to make.
RequestRaised == "<raised>"

Outages ==
  { Info(RequestRaised, dr) : dr \in CategoryToDelayAndRisk("Clouds") \cap { << 2, 101 >> } }

\* The service fails for the northern cities, the southern cities, or all.
OutageMaps ==
  { [ c \in City |-> IF c \in North THEN n ELSE s ] :
      n \in WeatherInfos \cup Outages, s \in WeatherInfos \cup Outages }
    \ WeatherMaps

\* The maps drawn from under the threaded server of the model: one answer
\* for every city.
UniformMaps == { m \in WeatherMaps : \A c \in City : m[c] = m["Hyderabad"] }

Forecasts == IF sched.threaded THEN UniformMaps ELSE WeatherMaps \cup OutageMaps

get_weather_delay_Propagates(city) == weather[city]

\* get_weather_delay(city_name, lat, lon): the answer, or the fallback of
\* the except branch (lines 75-78) when the request raised.
get_weather_delay(city) ==
  LET outcome == weather[city]
  IN IF outcome.condition = RequestRaised
       THEN Info("Unknown", << outcome.delay_min, outcome.risk >>)
       ELSE outcome

(***************************************************************************)
(* POST /api/update_weather                                                *)
(***************************************************************************)
SwIdle ==
  [ pc |-> "idle", ci |-> 0, city |-> "", delay |-> 0, risk |-> 0,
    neighbors |-> << >>, ni |-> 0, summary |-> EmptyDict,
    status |-> 0,         \* the response's status once there is one
    pre |-> EmptyDict,    \* history: GRAPH when the request arrived
    cpre |-> EmptyDict ]  \* history: GRAPH when the update of city began

\* GRAPH[a][b][key] = value
SetField(G, a, b, key, value) ==
  [ G EXCEPT ![a][EdgeIdx(G, a, b)][key] = value ]

\* GRAPH[a][b] = edge: a new key goes last, an old key keeps its place.
SetEdge(G, a, b, edge) ==
  IF HasEdge(G, a, b)
    THEN [ G EXCEPT ![a][EdgeIdx(G, a, b)] = edge ]
    ELSE [ G EXCEPT ![a] = Append(@, edge) ]

\* The for loops' control after the body for neighbors[ni] (or after line
\* 177 when ni = 0): the next neighbour, else the next city's fetch, else
\* the return of the summary (198-199).
Advance(s) ==
  IF s.ni < Len(s.neighbors)
    THEN [ s EXCEPT !.pc = "check", !.ni = @ + 1 ]
  ELSE IF s.ci < Len(CityOrder)
    THEN [ s EXCEPT !.pc = "fetch", !.ci = @ + 1 ]
  ELSE [ s EXCEPT !.pc = "done", !.status = 200 ]

\* The request arrives: summary = {} (166) and the loop over CITIES begins.
UpdateWeather(t) ==
  /\ sw[t].pc = "idle"
  /\ t = "w1" \/ (sched.threaded /\ sw["w1"].pc # "idle")
  /\ Turn(t)
  /\ sw' = [ sw EXCEPT ![t] = [ SwIdle EXCEPT !.pc = "fetch", !.ci = 1, !.pre = GRAPH ] ]
  /\ Ran(t)
  /\ UNCHANGED << GRAPH, weather, changes, last_summary, rt >>

\* Lines 167-177 for the city at ci: the collaborator's answer, the summary
\* entry and the list of the city's neighbours as they are now.  Nothing in
\* update_weather catches: an exception out of line 169 ends the request
\* with status 500.
Fetch(t) ==
  /\ sw[t].pc = "fetch"
  /\ Turn(t)
  /\ LET city == CityOrder[sw[t].ci]
         info == get_weather_delay(city)
     IN sw' = [ sw EXCEPT ![t] =
                  IF info.condition = RequestRaised
                    THEN [ @ EXCEPT !.pc = "done", !.status = 500, !.city = city ]
                    ELSE Advance([ @ EXCEPT !.city = city,
                                            !.delay = info.delay_min,
                                            !.risk = info.risk,
                                            !.summary = (city :> info) @@ @,
                                            !.neighbors = KeyList(GraphGet(GRAPH, city)),
                                            !.ni = 0,
                                            !.cpre = GRAPH ]) ]
  /\ Ran(t)
  /\ UNCHANGED << GRAPH, weather, changes, last_summary, rt >>

\* Lines 180-182: GRAPH[nb] is made if missing; is the reverse edge there?
Check(t) ==
  /\ sw[t].pc = "check"
  /\ Turn(t)
  /\ LET nb == sw[t].neighbors[sw[t].ni]
     IN /\ GRAPH' = IF nb \in DOMAIN GRAPH THEN GRAPH ELSE (nb :> << >>) @@ GRAPH
        /\ sw' = [ sw EXCEPT ![t].pc =
                     IF HasEdge(GRAPH, nb, sw[t].city) THEN "w192" ELSE "create" ]
  /\ Ran(t)
  /\ UNCHANGED << weather, changes, last_summary, rt >>

\* The dict of lines 185-190: the reverse edge made from the forward edge.
MirrorEdge(city, fwd) ==
  [ to |-> city, distance_km |-> fwd.distance_km, traffic_min |-> fwd.traffic_min,
    weather_min |-> 0, risk |-> 100 ]

\* Lines 184-190: the reverse edge is made.
Create(t) ==
  /\ sw[t].pc = "create"
  /\ Turn(t)
  /\ LET nb == sw[t].neighbors[sw[t].ni]
     IN GRAPH' = SetEdge(GRAPH, nb, sw[t].city,
                         MirrorEdge(sw[t].city, EdgeOf(GRAPH, sw[t].city, nb)))
  /\ sw' = [ sw EXCEPT ![t].pc = "w192" ]
  /\ Ran(t)
  /\ UNCHANGED << weather, changes, last_summary, rt >>

\* Lines 192-195, for the sweep locals s (city, the neighbour at ni, delay,
\* risk) on the graph G.
SetForwardWeather_Accumulates(G, s) ==
  SetField(G, s.city, s.neighbors[s.ni], "weather_min",
           EdgeOf(G, s.city, s.neighbors[s.ni]).weather_min + s.delay)

SetForwardWeather(G, s) == SetField(G, s.city, s.neighbors[s.ni], "weather_min", s.delay)

SetForwardRisk(G, s) == SetField(G, s.city, s.neighbors[s.ni], "risk", s.risk)

SetReverseWeather_MirrorsTraffic(G, s) ==
  SetField(SetField(G, s.neighbors[s.ni], s.city, "weather_min", s.delay),
           s.neighbors[s.ni], s.city, "traffic_min",
           EdgeOf(G, s.city, s.neighbors[s.ni]).traffic_min)

SetReverseWeather(G, s) == SetField(G, s.neighbors[s.ni], s.city, "weather_min", s.delay)

SetReverseRisk_Skipped(G, s) == G

SetReverseRisk(G, s) == SetField(G, s.neighbors[s.ni], s.city, "risk", s.risk)

\* Line 192: GRAPH[city][nb]["weather_min"] = delay
W192(t) ==
  /\ sw[t].pc = "w192"
  /\ Turn(t)
  /\ GRAPH' = SetForwardWeather(GRAPH, sw[t])
  /\ sw' = [ sw EXCEPT ![t].pc = "w193" ]
  /\ Ran(t)
  /\ UNCHANGED << weather, changes, last_summary, rt >>

\* Line 193: GRAPH[city][nb]["risk"] = risk
W193(t) ==
  /\ sw[t].pc = "w193"
  /\ Turn(t)
  /\ GRAPH' = SetForwardRisk(GRAPH, sw[t])
  /\ sw' = [ sw EXCEPT ![t].pc = "w194" ]
  /\ Ran(t)
  /\ UNCHANGED << weather, changes, last_summary, rt >>

\* Line 194: GRAPH[nb][city]["weather_min"] = delay
W194(t) ==
  /\ sw[t].pc = "w194"
  /\ Turn(t)
  /\ GRAPH' = SetReverseWeather(GRAPH, sw[t])
  /\ sw' = [ sw EXCEPT ![t].pc = "w195" ]
  /\ Ran(t)
  /\ UNCHANGED << weather, changes, last_summary, rt >>

\* Line 195: GRAPH[nb][city]["risk"] = risk, and the loops' control.
W195(t) ==
  /\ sw[t].pc = "w195"
  /\ Turn(t)
  /\ GRAPH' = SetReverseRisk(GRAPH, sw[t])
  /\ sw' = [ sw EXCEPT ![t] = Advance(@) ]
  /\ Ran(t)
  /\ UNCHANGED << weather, changes, last_summary, rt >>

\* The summary is sent and the thread is free again.
SweepReturn(t) ==
  /\ sw[t].pc = "done"
  /\ Turn(t)
  /\ sw' = [ sw EXCEPT ![t] = [ SwIdle EXCEPT !.pc = AfterResponse ] ]
  /\ last_summary' = sw[t].summary
  /\ Ran(t)
  /\ UNCHANGED << GRAPH, weather, changes, rt >>

\* The collaborator's answers change (the weather, or its random draw).  An
\* answer is read only by Fetch, so a change is taken when a fetch is next.
WeatherChanges ==
  /\ changes < MaxWeatherChanges
  /\ \E t \in Sweepers : sw[t].pc = "fetch" /\ Turn(t)
  /\ \E m \in Forecasts \ { weather } : weather' = m
  /\ changes' = changes + 1
  /\ UNCHANGED << GRAPH, rt, sw, sched, last_summary >>

(***************************************************************************)
(* Specifications                                                          *)
(***************************************************************************)
InitThreads(threaded) ==
  /\ changes = 0
  /\ last_summary = EmptyDict
  /\ rt = RtIdle
  /\ sw = [ t \in Sweepers |-> SwIdle ]
  /\ sched = [ threaded |-> threaded, last |-> "none", preempts |-> 0 ]

\* The program after import: requests are served one at a time.
Init ==
  /\ GRAPH = LoadedGraph
  /\ weather \in WeatherMaps \cup OutageMaps
  /\ InitThreads(FALSE)

\* The program under a threaded server (Flask's development server).
InitThreaded ==
  /\ GRAPH = LoadedGraph
  /\ weather \in { m \in UniformMaps : m["Hyderabad"].condition = "Clear" }
  /\ InitThreads(TRUE)

Next ==
  \/ GetRoute
  \/ AStarStep
  \/ RouteBreakdown
  \/ RouteReturn
  \/ \E t \in Sweepers : UpdateWeather(t)
  \/ \E t \in Sweepers : Fetch(t)
  \/ \E t \in Sweepers : Check(t)
  \/ \E t \in Sweepers : Create(t)
  \/ \E t \in Sweepers : W192(t)
  \/ \E t \in Sweepers : W193(t)
  \/ \E t \in Sweepers : W194(t)
  \/ \E t \in Sweepers : W195(t)
  \/ \E t \in Sweepers : SweepReturn(t)
  \/ WeatherChanges

Spec == Init /\ [][Next]_vars

\* GRAPH with the key of city c and every edge into c removed.
WithoutCity(G, c) ==
  [ a \in DOMAIN G \ {c} |-> SelectSeq(G[a], LAMBDA edge : edge.to # c) ]

\* GRAPH with every edge into city c removed; the edges out of c stay.
WithoutEdgesInto(G, c) ==
  [ a \in DOMAIN G |-> SelectSeq(G[a], LAMBDA edge : edge.to # c) ]

\* The dataset, and two partitioned variants of it: one city cut off in
\* both directions, one city that can be left but not entered.
TestGraphs ==
  { LoadedGraph,
    WithoutCity(LoadedGraph, "Medak"),
    WithoutEdgesInto(LoadedGraph, "Khammam") }

\* The program with GRAPH replaced by a test graph, one request at a time.
InitSearch ==
  /\ GRAPH \in TestGraphs
  /\ weather \in WeatherMaps
  /\ InitThreads(FALSE)

\* Requests on a test graph under a forecast that stays as it is.
NextSearch ==
  \/ GetRoute
  \/ AStarStep
  \/ RouteBreakdown
  \/ RouteReturn
  \/ \E t \in Sweepers : UpdateWeather(t)
  \/ \E t \in Sweepers : Fetch(t)
  \/ \E t \in Sweepers : Check(t)
  \/ \E t \in Sweepers : Create(t)
  \/ \E t \in Sweepers : W192(t)
  \/ \E t \in Sweepers : W193(t)
  \/ \E t \in Sweepers : W194(t)
  \/ \E t \in Sweepers : W195(t)
  \/ \E t \in Sweepers : SweepReturn(t)

\* The thread that runs the while loop of a_star_route keeps running it.
SpecSearch == InitSearch /\ [][NextSearch]_vars /\ WF_vars(AStarStep)

SpecThreaded == InitThreaded /\ [][Next]_vars

(***************************************************************************)
(* Reference definitions for the properties: shortest paths by relaxation  *)
(***************************************************************************)
Min(S) == CHOOSE x \in S : \A y \in S : x <= y

\* One round of relaxation of the cost map D (city -> least cost found).
Relax(G, D) ==
  LET cand(c) ==
        (IF c \in DOMAIN D THEN { D[c] } ELSE {}) \cup
        { D[p[1]] + edge_cost_minutes(GraphGet(G, p[1])[p[2]]) :
            p \in { q \in (DOMAIN D) \X (1..Cardinality(City)) :
                      /\ q[2] <= Len(GraphGet(G, q[1]))
                      /\ GraphGet(G, q[1])[q[2]].to = c } }
      reached == { c \in City : cand(c) # {} }
  IN [ c \in reached |-> Min(cand(c)) ]

RECURSIVE Closure(_, _)
Closure(G, D) ==
  LET D2 == Relax(G, D)
  IN IF D2 = D THEN D ELSE Closure(G, D2)

\* The least total edge_cost_minutes of a path from a to each city that the
\* directed edges of G reach from a.
MinCostFrom(G, a) == Closure(G, (a :> 0))

Reachable(G, a, b) == b \in DOMAIN MinCostFrom(G, a)

MinCost(G, a, b) == MinCostFrom(G, a)[b]

\* The sum of edge_cost_minutes over the legs of a path.
RECURSIVE PathCost(_, _)
PathCost(G, path) ==
  IF Len(path) < 2 THEN 0
  ELSE edge_cost_minutes(EdgeOf(G, path[1], path[2])) + PathCost(G, Tail(path))

(***************************************************************************)
(* Properties                                                              *)
(***************************************************************************)
\* C1: on the loaded dataset, the path a_star_route returns for two distinct
\* known cities is a minimum-cost path: the sum of edge_cost_minutes over
\* its legs is the least over all paths from start to goal.
C1_MinimumCostPath ==
  (rt.pc = "breakdown" /\ GRAPH = LoadedGraph)
    => PathCost(GRAPH, rt.path) = MinCost(GRAPH, rt.start, rt.goal)

\* C2: the heuristic is admissible on the loaded dataset: for every pair of
\* cities (a, b) with b reachable from a, heuristic_time_min(a, b) is at most
\* the least total edge cost of a path from a to b.  Stated where the search
\* uses it, for every city a and the goal b of the search.
C2_HeuristicAdmissible ==
  (rt.pc = "search" /\ GRAPH = LoadedGraph)
    => \A a \in City :
         Reachable(GRAPH, a, rt.goal)
           => heuristic_time_min(a, rt.goal) <= MinCost(GRAPH, a, rt.goal)

\* The forward and the reverse edge of every edge exist and agree on
\* weather_min and risk.
WeatherSymmetric(G) ==
  \A c \in City : \A i \in 1..Len(GraphGet(G, c)) :
    LET n == G[c][i].to
    IN /\ HasEdge(G, n, c)
       /\ EdgeOf(G, n, c).weather_min = G[c][i].weather_min
       /\ EdgeOf(G, n, c).risk = G[c][i].risk

\* Every reverse edge missing in P exists in G with the distance_km and the
\* traffic_min its forward edge had in P.
MirroredFrom(P, G) ==
  \A c \in City, n \in City :
    (HasEdge(P, c, n) /\ ~HasEdge(P, n, c))
      => /\ HasEdge(G, n, c)
         /\ EdgeOf(G, n, c).distance_km = EdgeOf(P, c, n).distance_km
         /\ EdgeOf(G, n, c).traffic_min = EdgeOf(P, c, n).traffic_min

\* C3: when update_weather has completed, for every city c and neighbour n
\* the edges (c,n) and (n,c) both exist and carry the same weather_min and
\* the same risk, and a reverse edge that did not exist before the sweep
\* exists with the distance_km and traffic_min of its forward edge.
C3_SymmetricAfterSweep ==
  \A t \in Sweepers :
    sw[t].pc = "done"
      => WeatherSymmetric(GRAPH) /\ MirroredFrom(sw[t].pre, GRAPH)

\* A sweep that made the reverse edge Karimnagar -> Siddipet has completed,
\* with answers that differ between cities.
C3_Witness ==
  /\ sw["w1"].pc = "done"
  /\ ~HasEdge(sw["w1"].pre, "Karimnagar", "Siddipet")
  /\ HasEdge(GRAPH, "Karimnagar", "Siddipet")
  /\ \E c \in City, n \in City : sw["w1"].summary[c] # sw["w1"].summary[n]

\* C10: under a stable input (the collaborator answers for every city what
\* it answered in the previous call), the graph after a later
\* update_weather call is the graph after the call before it: the same
\* edges with the same four attributes.
C10_SweepIdempotent ==
  \A t \in Sweepers :
    (sw[t].pc = "done" /\ last_summary = sw[t].summary) => GRAPH = sw[t].pre

\* A second sweep has completed on the answers of the first, which were rain
\* in the north and fair in the south, and the graph is no longer as loaded.
C10_Witness ==
  /\ sw["w1"].pc = "done"
  /\ last_summary = sw["w1"].summary
  /\ sw["w1"].summary["Warangal"].condition = "Rain"
  /\ sw["w1"].summary["Hyderabad"].condition = "Clear"
  /\ GRAPH # LoadedGraph

\* A sweep is in the middle of the update of its city.
Updating(t) == sw[t].pc \in { "check", "create", "w192", "w193", "w194", "w195" }

\* The pair (city, nb) of sweep t is as it was when the update of the city
\* began: the same weather_min and risk on both edges, and no reverse edge
\* if there was none.
PairBefore(t, nb) ==
  LET c == sw[t].city
      P == sw[t].cpre
  IN /\ EdgeOf(GRAPH, c, nb).weather_min = EdgeOf(P, c, nb).weather_min
     /\ EdgeOf(GRAPH, c, nb).risk = EdgeOf(P, c, nb).risk
     /\ IF HasEdge(P, nb, c)
          THEN /\ EdgeOf(GRAPH, nb, c).weather_min = EdgeOf(P, nb, c).weather_min
               /\ EdgeOf(GRAPH, nb, c).risk = EdgeOf(P, nb, c).risk
          ELSE ~HasEdge(GRAPH, nb, c)

\* The pair (city, nb) of sweep t carries the supplied values on both edges.
PairAfter(t, nb) ==
  LET c == sw[t].city
  IN /\ HasEdge(GRAPH, nb, c)
     /\ EdgeOf(GRAPH, c, nb).weather_min = sw[t].delay
     /\ EdgeOf(GRAPH, c, nb).risk = sw[t].risk
     /\ EdgeOf(GRAPH, nb, c).weather_min = sw[t].delay
     /\ EdgeOf(GRAPH, nb, c).risk = sw[t].risk

\* C4: a route request running beside update_weather never sees a
\* half-updated edge pair: while a_star_route or route_breakdown has reads
\* of GRAPH ahead, every pair (c,n) of a city being updated has on both
\* edges the values from before the update (and no reverse edge if none
\* existed) or on both edges the supplied values.
C4_NoHalfUpdatedPair ==
  rt.pc \in { "search", "breakdown" }
    => \A t \in Sweepers :
         Updating(t)
           => \A i \in 1..Len(sw[t].neighbors) :
                PairBefore(t, sw[t].neighbors[i]) \/ PairAfter(t, sw[t].neighbors[i])

\* A sweep's response is computed or sent.
Finished(t) == sw[t].pc \in { "done", "exit" }

\* C5: weather ingestion is serialized against itself, so that the writes
\* of two overlapping update_weather requests never interleave and, once
\* both have finished, every forward and reverse edge agree on weather_min
\* and risk.
C5_SweepsSerialized ==
  (\A t \in Sweepers : Finished(t)) => WeatherSymmetric(GRAPH)

\* What get_route answers when the search finds no path (lines 147-148).
RouteNotFoundResponse == ErrorResponse(404, "No route found")

\* C6: a request with both arguments present and an endpoint that is no
\* known city fails before any search starts, with an outcome that is
\* neither a path nor the outcome of a search that found no route.
C6_UnknownCityRejected ==
  (/\ rt.pc = "done"
   /\ rt.start # "" /\ rt.goal # ""
   /\ (rt.start \notin City \/ rt.goal \notin City))
    => /\ rt.search = NoSearch
       /\ rt.response.status # 200
       /\ rt.response # RouteNotFoundResponse

\* C8: for every city c, a request from c to c is answered with the path
\* [c] and the all-zero breakdown with no legs, and the search is not
\* entered, whatever the graph is.
C8_TrivialRoute ==
  (rt.pc = "done" /\ rt.start = rt.goal /\ rt.start \in City)
    => /\ rt.response = RouteResponse(<< rt.start >>, ZeroBreakdown)
       /\ rt.search = NoSearch
       /\ rt.current = << >>

\* A request from a city to itself is answered after a sweep has changed
\* the graph.
C8_Witness ==
  /\ rt.pc = "done"
  /\ rt.start = "Khammam" /\ rt.goal = "Khammam"
  /\ rt.response.status = 200
  /\ GRAPH # LoadedGraph

\* C9: with no weather update between search and breakdown, the cost g with
\* which a_star_route pops the goal equals the unrounded total_time that
\* route_breakdown sums along the returned path.
C9_PlannerMatchesAccountant ==
  (rt.pc = "done" /\ rt.response.status = 200 /\ rt.start # rt.goal)
    => rt.current[2] = rt.total_time

\* A route of three legs or more has been answered after a sweep with rain.
C9_Witness ==
  /\ rt.pc = "done" /\ rt.response.status = 200
  /\ Len(rt.path) >= 4
  /\ \E i \in 1..Len(rt.response.breakdown.legs) :
       rt.response.breakdown.legs[i].weather_min = 15
  /\ rt.current[2] = rt.total_time

\* C7: for distinct known cities the search terminates, and it ends in
\* "No route found" exactly when the goal is not reachable from the start
\* through the directed edges of GRAPH.
C7_SearchTerminates ==
  /\ [](( /\ rt.pc \in { "breakdown", "done" }
          /\ rt.start \in City /\ rt.goal \in City /\ rt.start # rt.goal )
          => ( (rt.response = RouteNotFoundResponse)
                 <=> ~Reachable(GRAPH, rt.start, rt.goal) ))
  /\ ((rt.pc = "search") ~> (rt.pc # "search"))

\* A search between two cities of a partitioned graph has exhausted its
\* frontier, after expanding more than the start.
C7_Witness ==
  /\ rt.pc = "done"
  /\ rt.start \in City /\ rt.goal \in City /\ rt.start # rt.goal
  /\ rt.response = RouteNotFoundResponse
  /\ rt.search.open_heap = {}
  /\ Cardinality(DOMAIN rt.search.g_score) > 1
  /\ ~Reachable(GRAPH, rt.start, rt.goal)

\* The cities for which a sweep's request to the weather service raised.
FellBack(t) == { c \in DOMAIN sw[t].summary : sw[t].summary[c].condition = "Unknown" }

\* C11: a failure of the weather service for any set of cities neither
\* aborts the sweep nor reaches the caller: the sweep ends with status 200
\* and a summary with one entry per city, the entry of a failed city is the
\* fallback ("Unknown" with a fair-weather delay and risk), and when the
\* update of a city is complete every edge of the city, and its reverse,
\* carries the delay and risk of the city's entry.
C11_OutageDegrades ==
  \A t \in Sweepers :
    /\ sw[t].pc = "done"
         => /\ sw[t].status = 200
            /\ DOMAIN sw[t].summary = City
    /\ \A c \in FellBack(t) :
         << sw[t].summary[c].delay_min, sw[t].summary[c].risk >>
           \in CategoryToDelayAndRisk("Clouds")
    /\ (sw[t].pc \in { "fetch", "done" } /\ sw[t].city # "")
         => \A i \in 1..Len(sw[t].neighbors) :
              PairAfter(t, sw[t].neighbors[i])

\* A sweep has ended during which the service failed for the northern
\* cities and answered for the others.
C11_Witness ==
  /\ sw["w1"].pc = "done"
  /\ FellBack("w1") = North
  /\ sw["w1"].summary["Hyderabad"].condition = "Rain"
  /\ EdgeOf(GRAPH, "Medak", "Siddipet").weather_min = 2
  /\ EdgeOf(GRAPH, "Medak", "Siddipet").risk = 101

\* Every edge of G is an edge of H with the same distance_km and traffic_min.
EdgesKept(G, H) ==
  \A a \in DOMAIN G :
    /\ a \in DOMAIN H
    /\ \A b \in Keys(G[a]) :
         /\ HasEdge(H, a, b)
         /\ EdgeOf(H, a, b).distance_km = EdgeOf(G, a, b).distance_km
         /\ EdgeOf(H, a, b).traffic_min = EdgeOf(G, a, b).traffic_min

\* Every edge of H that G lacks is the reverse of an edge of G, made by a
\* sweep at lines 184-190 with the forward edge's distance_km and
\* traffic_min.
OnlyReverseEdgesAdded(G, H) ==
  \A a \in DOMAIN H :
    \A b \in Keys(H[a]) :
      HasEdge(G, a, b)
        \/ /\ HasEdge(G, b, a)
           /\ \E t \in Sweepers : sw[t].pc = "create" /\ sw[t].city = b
           /\ EdgeOf(H, a, b).distance_km = EdgeOf(G, b, a).distance_km
           /\ EdgeOf(H, a, b).traffic_min = EdgeOf(G, b, a).traffic_min

\* C12: in every step of planRoute and refreshWeather the keys of GRAPH and
\* the ends of its edges stay within the city set, no edge is removed,
\* distance_km and traffic_min of an existing edge are not modified, an
\* added edge is the reverse of an existing edge, created during a sweep
\* with that edge's distance_km and traffic_min, and a step of planRoute
\* leaves GRAPH as it is.
C12_GraphFrame ==
  [][ IF GRAPH' = GRAPH
        THEN \A a \in DOMAIN GRAPH : a \in City /\ Keys(GRAPH[a]) \subseteq City
        ELSE /\ rt' = rt
             /\ DOMAIN GRAPH' = DOMAIN GRAPH
             /\ \A a \in DOMAIN GRAPH' : a \in City /\ Keys(GRAPH'[a]) \subseteq City
             /\ EdgesKept(GRAPH, GRAPH')
             /\ OnlyReverseEdgesAdded(GRAPH, GRAPH') ]_vars

\* After a sweep with rain that made Karimnagar -> Siddipet, a route has
\* been answered, and every edge of the dataset is still there with its
\* distance_km and traffic_min.
C12_Witness ==
  /\ rt.pc = "done" /\ rt.response.status = 200 /\ Len(rt.path) >= 3
  /\ ~HasEdge(LoadedGraph, "Karimnagar", "Siddipet")
  /\ HasEdge(GRAPH, "Karimnagar", "Siddipet")
  /\ EdgeOf(GRAPH, "Hyderabad", "Karimnagar").weather_min = 15
  /\ EdgeOf(GRAPH, "Karimnagar", "Hyderabad").traffic_min
       # EdgeOf(GRAPH, "Hyderabad", "Karimnagar").traffic_min
  /\ EdgesKept(LoadedGraph, GRAPH)

\* The predecessor links of a search: each link is an edge of G, the best
\* cost recorded for a city's predecessor is below the city's own, and the
\* start has no predecessor.
LinksDescend(G, r) ==
  /\ r.start \notin DOMAIN r.search.came_from
  /\ \A n \in DOMAIN r.search.came_from :
       LET p == r.search.came_from[n]
       IN /\ HasEdge(G, p, n)
          /\ Known(r.search.g_score, p) /\ Known(r.search.g_score, n)
          /\ r.search.g_score[p] < r.search.g_score[n]

\* A path from start to goal along edges of G that visits no city twice.
WellFormed(G, path, start, goal) ==
  /\ Len(path) >= 1
  /\ path[1] = start
  /\ path[Len(path)] = goal
  /\ \A i \in 1..(Len(path) - 1) : HasEdge(G, path[i], path[i + 1])
  /\ \A i \in 1..Len(path) : \A j \in 1..Len(path) : path[i] = path[j] => i = j

\* C13: every path a_star_route returns starts at start, ends at goal,
\* follows directed edges of GRAPH and repeats no city; throughout the
\* search the best cost strictly decreases along the came_from chain and
\* the start has no predecessor, so the reconstruction ends.
C13_PathWellFormed ==
  /\ rt.pc \in { "search", "breakdown" } => LinksDescend(GRAPH, rt)
  /\ rt.pc = "breakdown" => WellFormed(GRAPH, rt.path, rt.start, rt.goal)

\* A path of four cities has been returned, on a graph that a sweep with
\* rain has changed, from a search that also linked a city off the path at
\* a cost below the goal's.
C13_Witness ==
  /\ rt.pc = "breakdown"
  /\ Len(rt.path) >= 4
  /\ GRAPH # LoadedGraph
  /\ \E n \in DOMAIN rt.search.came_from :
       /\ \A i \in 1..Len(rt.path) : rt.path[i] # n
       /\ rt.search.g_score[n] < rt.search.g_score[rt.goal]

\* C14: stale entries are skipped: an entry (f, g, city) popped with g above
\* g_score[city] is discarded, so the for loop of lines 63-69 runs only for
\* an entry whose g is g_score[city].  While the search is under way,
\* rt.current is the entry the loop ran for last.
C14_StaleEntriesSkipped ==
  (rt.pc = "search" /\ rt.current # << >>)
    => rt.current[2] = rt.search.g_score[rt.current[3]]

====
